---- MODULE Spec2Model ----
(***************************************************************************)
(* FORM-019 finder (form19_search_app.py): the page scanner with its       *)
(* threshold filter, the background scan job (_run_job), the lock-guarded  *)
(* job registry JOBS and the job-scoped HTTP handlers.                      *)
(*                                                                         *)
(* Conventions.  An Optional[T] value is a sequence: <<>> is None and      *)
(* <<v>> is the value v.  Millimetre values are integers.  A regular       *)
(* expression match is the tuple of its captured groups, <<>> when the     *)
(* pattern does not match.  A page text is abstracted to what the scanner  *)
(* reads from it: the lower-cased part-type tokens it contains, the three  *)
(* triplet matches, the implant names and the lot code.                    *)
(***************************************************************************)
EXTENDS Integers, Sequences, FiniteSets, TLC

VARIABLES fs, fitz, JOBS, lock, worker, client, resp, probe

vars == <<fs, fitz, JOBS, lock, worker, client, resp, probe>>

(***************************************************************************)
(* Bounds of the model.                                                    *)
(***************************************************************************)
MaxJobs == 2
MaxFiles == 2

None == <<>>
Some(v) == <<v>>

(***************************************************************************)
(* Module constants.                                                       *)
(***************************************************************************)
DEFAULT_BASE_DIR == "P:/Client Data/Carlsmed/~Purchase Orders"

PART_TYPES == <<"ALIF", "LLIF", "ALIF-X", "TLIF-C", "TLIF-O", "TLIF-CA">>

PLAN_LABELS == [idx \in 0..2 |-> <<"Minus 01", "Plan 02", "Plus 03">>[idx + 1]]

(***************************************************************************)
(* str.lower() on the part types, and the substring test `a in b` on      *)
(* lower-cased part-type tokens ("alif" occurs inside "alif-x", "tlif-c"   *)
(* inside "tlif-ca").                                                      *)
(***************************************************************************)
lower(s) ==
    CASE s = "ALIF" -> "alif"
      [] s = "LLIF" -> "llif"
      [] s = "ALIF-X" -> "alif-x"
      [] s = "TLIF-C" -> "tlif-c"
      [] s = "TLIF-O" -> "tlif-o"
      [] s = "TLIF-CA" -> "tlif-ca"
      [] OTHER -> s

IsSubstring(a, b) ==
    \/ a = b
    \/ <<a, b>> \in {<<"alif", "alif-x">>, <<"tlif-c", "tlif-ca">>}

PartTypeInText(part_type, page) ==
    \E tok \in page.tokens : IsSubstring(lower(part_type), tok)

(***************************************************************************)
(* _parse_float on the form strings of the model: blank and non-numeric    *)
(* strings give None.                                                      *)
(***************************************************************************)
_parse_float(value) ==
    CASE value = "" -> None
      [] value = "abc" -> None
      [] value = "6" -> Some(6)
      [] value = "11.0" -> Some(11)
      [] value = "14" -> Some(14)
      [] value = "22" -> Some(22)
      [] OTHER -> None

NormOp(op) == IF op \in {">=", "<="} THEN op ELSE ">="

Thresholds(form) ==
    [ap_depth_b_mm |-> _parse_float(form.ap_b),
     ap_op |-> NormOp(form.ap_op),
     ml_width_a_mm |-> _parse_float(form.ml_a),
     ml_op |-> NormOp(form.ml_op),
     max_cage_height_c_mm |-> _parse_float(form.max_c),
     max_op |-> NormOp(form.max_op)]

_parse_three_numbers(match) ==
    IF match = <<>> THEN None ELSE Some(<<match[1], match[2], match[3]>>)

(***************************************************************************)
(* _extract_po_from_path: the first ancestor directory name, nearest      *)
(* first, in which RE_PO finds a token; the token upper-cased, "" if none. *)
(***************************************************************************)
RE_PO_search(name) ==
    CASE name = "po1001_batch" -> Some("po1001")
      [] name = "PO2002" -> Some("PO2002")
      [] OTHER -> None

upper(s) ==
    CASE s = "po1001" -> "PO1001"
      [] OTHER -> s

RECURSIVE PoFromParents(_, _)
PoFromParents(parents, i) ==
    IF i > Len(parents) THEN ""
    ELSE LET m == RE_PO_search(parents[i])
         IN IF m # None THEN upper(m[1]) ELSE PoFromParents(parents, i + 1)

_extract_po_from_path(pdf) == PoFromParents(pdf.parents, 1)

(***************************************************************************)
(* _cmp and the per-index admission of scan_pdf's inner loop.              *)
(***************************************************************************)
_cmpUnsetRejects(value, threshold, op) ==
    IF threshold = None THEN FALSE
    ELSE IF op = "<=" THEN value <= threshold[1]
    ELSE value >= threshold[1]

_cmp(value, threshold, op) ==
    IF threshold = None THEN TRUE
    ELSE IF op = "<=" THEN value <= threshold[1]
    ELSE value >= threshold[1]

Admit(ap_v, ml_v, maxh_v, thresholds) ==
    LET ok0 == TRUE
        ok1 == IF ~_cmp(ap_v, thresholds.ap_depth_b_mm, thresholds.ap_op)
               THEN FALSE ELSE ok0
        ok2 == IF ~_cmp(ml_v, thresholds.ml_width_a_mm, thresholds.ml_op)
               THEN FALSE ELSE ok1
        ok3 == IF ~_cmp(maxh_v, thresholds.max_cage_height_c_mm, thresholds.max_op)
               THEN FALSE ELSE ok2
    IN ok3

Row(pdf, page, part_type, idx, ap_vals, ml_vals, maxh_vals) ==
    [PO |-> _extract_po_from_path(pdf),
     Lot |-> IF page.lot # None THEN page.lot[1] ELSE "",
     PartType |-> part_type,
     Plan |-> PLAN_LABELS[idx],
     ImplantName |-> IF idx < Len(page.implants) THEN page.implants[idx + 1] ELSE "",
     AP_Depth_B_mm |-> ap_vals[idx + 1],
     ML_Width_A_mm |-> ml_vals[idx + 1],
     Max_Cage_Height_C_mm |-> maxh_vals[idx + 1],
     PDF |-> pdf.path]

RECURSIVE PlanRows(_, _, _, _, _)
PlanRows(pdf, page, part_type, thresholds, idx) ==
    IF idx > 2 THEN <<>>
    ELSE LET ap_vals == _parse_three_numbers(page.ap)[1]
             ml_vals == _parse_three_numbers(page.ml)[1]
             maxh_vals == _parse_three_numbers(page.maxh)[1]
             rest == PlanRows(pdf, page, part_type, thresholds, idx + 1)
         IN IF Admit(ap_vals[idx + 1], ml_vals[idx + 1], maxh_vals[idx + 1], thresholds)
            THEN <<Row(pdf, page, part_type, idx, ap_vals, ml_vals, maxh_vals)>> \o rest
            ELSE rest

(***************************************************************************)
(* The body of scan_pdf's page loop for one page whose text was read.      *)
(***************************************************************************)
ScanPage(pdf, page, part_type, thresholds) ==
    IF ~page.hasText THEN <<>>
    ELSE IF ~PartTypeInText(part_type, page) THEN <<>>
    ELSE IF ~(/\ _parse_three_numbers(page.ap) # None
              /\ _parse_three_numbers(page.ml) # None
              /\ _parse_three_numbers(page.maxh) # None) THEN <<>>
    ELSE PlanRows(pdf, page, part_type, thresholds, 0)

(***************************************************************************)
(* scan_pdf.  The result says whether an exception left the function       *)
(* (page.get_text raising inside the try/finally, which has no except      *)
(* clause) and, if none did, the rows returned.                            *)
(***************************************************************************)
RECURSIVE ScanPages(_, _, _, _, _)
ScanPages(pdf, part_type, thresholds, i, results) ==
    IF i > Len(pdf.pages) THEN [raised |-> FALSE, rows |-> results]
    ELSE LET page == pdf.pages[i]
         IN IF ~page.readable THEN [raised |-> TRUE, rows |-> <<>>]
            ELSE ScanPages(pdf, part_type, thresholds, i + 1,
                           results \o ScanPage(pdf, page, part_type, thresholds))

scan_pdf(pdf, part_type, thresholds, fitzLoaded) ==
    IF ~fitzLoaded THEN [raised |-> FALSE, rows |-> <<>>]
    ELSE IF ~pdf.openable THEN [raised |-> FALSE, rows |-> <<>>]
    ELSE ScanPages(pdf, part_type, thresholds, 1, <<>>)

(***************************************************************************)
(* results_to_csv: the header line, then one line per row, the fields in   *)
(* the writer's field order.  The text is modelled as its list of lines;   *)
(* the empty string is the empty list.                                     *)
(***************************************************************************)
fieldnames ==
    <<"PO", "Lot", "PartType", "Plan", "ImplantName", "AP_Depth_B_mm",
      "ML_Width_A_mm", "Max_Cage_Height_C_mm", "PDF">>

CsvLine(row) ==
    <<row.PO, row.Lot, row.PartType, row.Plan, row.ImplantName,
      row.AP_Depth_B_mm, row.ML_Width_A_mm, row.Max_Cage_Height_C_mm, row.PDF>>

results_to_csv(rows) ==
    <<fieldnames>> \o [i \in 1..Len(rows) |-> CsvLine(rows[i])]

(***************************************************************************)
(* The files of the model.  A page is what page.get_text yields            *)
(* (readable = FALSE: the call raises).                                    *)
(***************************************************************************)
Page(hasText, tokens, ap, ml, maxh, implants, lot) ==
    [readable |-> TRUE, hasText |-> hasText, tokens |-> tokens, ap |-> ap,
     ml |-> ml, maxh |-> maxh, implants |-> implants, lot |-> lot]

BlankPage == Page(FALSE, {}, <<>>, <<>>, <<>>, <<>>, None)

AlifPage ==
    Page(TRUE, {"alif"}, <<10, 12, 14>>, <<20, 22, 24>>, <<5, 6, 7>>,
         <<"IMP-A", "IMP-B">>, Some("230101.AB.01"))

LlifPage ==
    Page(TRUE, {"llif"}, <<10, 12, 14>>, <<20, 22, 24>>, <<5, 6, 7>>, <<>>, None)

NoWidthPage ==
    Page(TRUE, {"alif"}, <<10, 12, 14>>, <<>>, <<5, 6, 7>>, <<>>, None)

AlifXPage ==
    Page(TRUE, {"alif-x"}, <<11, 11, 11>>, <<20, 22, 24>>, <<5, 6, 7>>,
         <<"IMP-X", "IMP-Y", "IMP-Z", "IMP-W">>, Some("240202.CD.02"))

BrokenPage == [BlankPage EXCEPT !.readable = FALSE]

Pdf(name) ==
    CASE name = "good" ->
           [path |-> "po1001_batch/lot7/FORM-019_A.pdf",
            parents |-> <<"lot7", "po1001_batch">>, openable |-> TRUE,
            pages |-> <<BlankPage, AlifPage, LlifPage, NoWidthPage>>]
      [] name = "locked" ->
           [path |-> "PO2002/form-19_B.pdf", parents |-> <<"PO2002">>,
            openable |-> FALSE, pages |-> <<>>]
      [] name = "torn" ->
           [path |-> "misc/Form-019_C.pdf", parents |-> <<"misc">>,
            openable |-> TRUE, pages |-> <<AlifPage, BrokenPage>>]
      [] name = "good2" ->
           [path |-> "PO2002/x/form-019_D.pdf", parents |-> <<"x", "PO2002">>,
            openable |-> TRUE, pages |-> <<AlifXPage>>]

(* The order in which the file system yields the files of the model. *)
FsOrder == <<"good", "locked", "torn", "good2">>

PdfNames == {FsOrder[i] : i \in 1..Len(FsOrder)}

InListing(l, f) == \E i \in 1..Len(l) : l[i] = f

ListingOf(S) == SelectSeq(FsOrder, LAMBDA f : f \in S)

(* What rglob yields below the purchase-order folders of the base folder: *)
(* at most MaxFiles of the files, in file-system order.                   *)
Enumerations == {ListingOf(S) : S \in {T \in SUBSET PdfNames : Cardinality(T) <= MaxFiles}}

(* Without PyMuPDF every file scans to no rows, whatever it holds: the    *)
(* listings tried then are those with a file that has rows and the file   *)
(* whose page would raise.                                                *)
WithoutLibrary ==
    {l \in Enumerations : InListing(l, "good") /\ InListing(l, "torn")}

(* The file system: the folders that exist, and what rglob yields below   *)
(* the purchase-order folders of the base folder.  Nothing lies below a   *)
(* folder that does not exist.                                            *)
FileSystems ==
    [dirs : {{DEFAULT_BASE_DIR}}, pdfs : Enumerations, library : {TRUE}]
    \cup [dirs : {{DEFAULT_BASE_DIR}}, pdfs : WithoutLibrary, library : {FALSE}]
    \cup [dirs : {{}}, pdfs : {<<>>}, library : {TRUE}]

(* str(exc) of an exception leaving scan_pdf. *)
ExcStrs == {"", "cannot read page"}

(* _gather_pdfs: a base folder that is no directory yields nothing. *)
_gather_pdfs(base_dir, tree) ==
    IF base_dir \in tree.dirs THEN tree.pdfs ELSE <<>>

(***************************************************************************)
(* The job registry.                                                       *)
(***************************************************************************)
JobIds == 1..MaxJobs

NoHolder == "free"

Clients == {"c1"}

(* ids a request may carry: those /start can hand out and one it never does *)
RequestIds == 0..MaxJobs

NewJob ==
    [total |-> 0, processed |-> 0, done |-> FALSE, results |-> <<>>,
     csv |-> <<>>, error |-> None]

uuid4Colliding(J) == 1

(* uuid4().hex: an id no earlier job has *)
uuid4(J) == Cardinality(DOMAIN J) + 1

AcquirableAlways(l) == TRUE

(* with JOBS_LOCK: the lock can be taken only while nobody holds it *)
Acquirable(l) == l = NoHolder

JOBS_getDefaulted(J, job_id) ==
    IF job_id \in DOMAIN J THEN Some(J[job_id]) ELSE Some(NewJob)

JOBS_get(J, job_id) == IF job_id \in DOMAIN J THEN Some(J[job_id]) ELSE None

RecordTotalShort(info, pdfs) == [info EXCEPT !.total = Len(pdfs) - 1]

RecordTotal(info, pdfs) == [info EXCEPT !.total = Len(pdfs)]

RecordProcessed(info, processed) == [info EXCEPT !.processed = processed]

ExtendFront(results, rows) == rows \o results

Extend(results, rows) == results \o rows

MarkDone(info, results, csv_data) ==
    [info EXCEPT !.results = results, !.csv = csv_data, !.done = TRUE]

MarkErrorFreshEntry(info, msg) == [NewJob EXCEPT !.error = Some(msg), !.done = TRUE]

MarkErrorNotDone(info, msg) == [info EXCEPT !.error = Some(msg)]

MarkError(info, msg) == [info EXCEPT !.error = Some(msg), !.done = TRUE]

(***************************************************************************)
(* The forms /start receives in the model.                                 *)
(***************************************************************************)
Form(base_dir, part_type, ap_b, ap_op) ==
    [base_dir |-> base_dir, part_type |-> part_type, ap_b |-> ap_b,
     ml_a |-> "", max_c |-> "", ap_op |-> ap_op, ml_op |-> ">=", max_op |-> ">="]

(* Two forms that differ in the raw operator field only: start           *)
(* replaces an operator it does not know by ">=".                          *)
StartForms ==
    {Form(DEFAULT_BASE_DIR, "ALIF", "11.0", ">="),
     Form(DEFAULT_BASE_DIR, "ALIF", "11.0", "=>")}

NoResponse ==
    [endpoint |-> "none", job_id |-> 0, status |-> 0, total |-> 0,
     processed |-> 0, done |-> FALSE, error |-> None, results |-> <<>>,
     text |-> <<>>]

NotFound(endpoint, job_id) ==
    [NoResponse EXCEPT !.endpoint = endpoint, !.job_id = job_id, !.status = 404]

NoProbe == [page |-> BlankPage, part_type |-> "ALIF", form |-> Form("", "ALIF", "", ">="),
            scanned |-> FALSE, rows |-> <<>>]

Init ==
    /\ \E world \in FileSystems :
          /\ fs = [dirs |-> world.dirs, pdfs |-> world.pdfs]
          /\ fitz = world.library
    /\ JOBS = <<>>
    /\ lock = NoHolder
    /\ worker = <<>>
    /\ client = [c \in Clients |-> [pc |-> "idle", job_id |-> 0, total |-> 0]]
    /\ resp = [c \in Clients |-> NoResponse]
    /\ probe = NoProbe

(***************************************************************************)
(* POST /start: builds the thresholds, registers the job under the lock    *)
(* and starts its worker thread.                                           *)
(***************************************************************************)
Start(form) ==
    /\ Cardinality(DOMAIN JOBS) < MaxJobs
    /\ Acquirable(lock)
    /\ LET job_id == uuid4(JOBS)
       IN /\ JOBS' = [j \in DOMAIN JOBS \cup {job_id} |->
                         IF j = job_id THEN NewJob ELSE JOBS[j]]
          /\ worker' = [j \in DOMAIN worker \cup {job_id} |->
                         IF j = job_id
                         THEN [pc |-> "gather", base_dir |-> form.base_dir,
                               part_type |-> form.part_type,
                               thresholds |-> Thresholds(form),
                               pdfs |-> <<>>, processed |-> 0, results |-> <<>>]
                         ELSE worker[j]]
    /\ UNCHANGED <<fs, fitz, lock, client, resp, probe>>

(***************************************************************************)
(* _run_job, one action per critical section, each with the local          *)
(* computation that leads to it.                                           *)
(***************************************************************************)
Gather(j) ==
    /\ j \in DOMAIN worker
    /\ worker[j].pc = "gather"
    /\ Acquirable(lock)
    /\ LET pdfs == _gather_pdfs(worker[j].base_dir, fs)
       IN /\ JOBS' = [JOBS EXCEPT ![j] = RecordTotal(@, pdfs)]
          /\ worker' = [worker EXCEPT ![j].pdfs = pdfs, ![j].processed = 0,
                                      ![j].results = <<>>, ![j].pc = "scan"]
    /\ UNCHANGED <<fs, fitz, lock, client, resp, probe>>

ScanFile(j) ==
    /\ j \in DOMAIN worker
    /\ worker[j].pc = "scan"
    /\ worker[j].processed < Len(worker[j].pdfs)
    /\ Acquirable(lock)
    /\ LET w == worker[j]
           pdf == Pdf(w.pdfs[w.processed + 1])
           out == scan_pdf(pdf, w.part_type, w.thresholds, fitz)
       IN IF out.raised
          THEN \E msg \in ExcStrs :
                 /\ JOBS' = [JOBS EXCEPT ![j] = MarkError(@, msg)]
                 /\ worker' = [worker EXCEPT ![j].pc = "failed"]
          ELSE /\ JOBS' = [JOBS EXCEPT ![j] = RecordProcessed(@, w.processed + 1)]
               /\ worker' = [worker EXCEPT ![j].results = Extend(w.results, out.rows),
                                           ![j].processed = w.processed + 1]
    /\ UNCHANGED <<fs, fitz, lock, client, resp, probe>>

Publish(j) ==
    /\ j \in DOMAIN worker
    /\ worker[j].pc = "scan"
    /\ worker[j].processed = Len(worker[j].pdfs)
    /\ Acquirable(lock)
    /\ LET csv_data == results_to_csv(worker[j].results)
       IN JOBS' = [JOBS EXCEPT ![j] = MarkDone(@, worker[j].results, csv_data)]
    /\ worker' = [worker EXCEPT ![j].pc = "finished"]
    /\ UNCHANGED <<fs, fitz, lock, client, resp, probe>>

_run_job(j) == Gather(j) \/ ScanFile(j) \/ Publish(j)

(***************************************************************************)
(* GET /progress/<job_id>.  The handler holds the lock from the lookup to  *)
(* the last field it reads; the model lets other threads run in between,   *)
(* as far as the lock allows.                                              *)
(***************************************************************************)
ProgressEnter(c, job_id) ==
    /\ client[c].pc = "idle"
    /\ Acquirable(lock)
    /\ LET info == JOBS_get(JOBS, job_id)
       IN IF info = None
          THEN /\ resp' = [resp EXCEPT ![c] = NotFound("progress", job_id)]
               /\ UNCHANGED <<lock, client>>
          ELSE /\ lock' = c
               /\ client' = [client EXCEPT ![c] =
                               [pc |-> "progress", job_id |-> job_id,
                                total |-> info[1].total]]
               /\ UNCHANGED resp
    /\ UNCHANGED <<fs, fitz, JOBS, worker, probe>>

ProgressReturn(c) ==
    /\ client[c].pc = "progress"
    /\ LET info == JOBS_get(JOBS, client[c].job_id)[1]
       IN resp' = [resp EXCEPT ![c] =
                     [NoResponse EXCEPT !.endpoint = "progress",
                                           !.job_id = client[c].job_id,
                                           !.status = 200,
                                           !.total = client[c].total,
                                           !.processed = info.processed,
                                           !.done = info.done,
                                           !.error = info.error]]
    /\ client' = [client EXCEPT ![c] = [pc |-> "idle", job_id |-> 0, total |-> 0]]
    /\ lock' = NoHolder
    /\ UNCHANGED <<fs, fitz, JOBS, worker, probe>>

(***************************************************************************)
(* GET /results/<job_id> and GET /download/<job_id>.                       *)
(***************************************************************************)
get_results(c, job_id) ==
    /\ client[c].pc = "idle"
    /\ Acquirable(lock)
    /\ LET info == JOBS_get(JOBS, job_id)
       IN resp' = [resp EXCEPT ![c] =
                     IF info = None THEN NotFound("results", job_id)
                     ELSE [NoResponse EXCEPT !.endpoint = "results",
                                             !.job_id = job_id, !.status = 200,
                                             !.results = info[1].results]]
    /\ UNCHANGED <<fs, fitz, JOBS, lock, worker, client, probe>>

download_csv(c, job_id) ==
    /\ client[c].pc = "idle"
    /\ Acquirable(lock)
    /\ LET info == JOBS_get(JOBS, job_id)
       IN resp' = [resp EXCEPT ![c] =
                     IF info = None THEN NotFound("download", job_id)
                     ELSE [NoResponse EXCEPT !.endpoint = "download",
                                             !.job_id = job_id, !.status = 200,
                                             !.text = info[1].csv]]
    /\ UNCHANGED <<fs, fitz, JOBS, lock, worker, client, probe>>

Next ==
    \/ \E form \in StartForms : Start(form)
    \/ \E j \in JobIds : _run_job(j)
    \/ \E c \in Clients, job_id \in RequestIds : ProgressEnter(c, job_id)
    \/ \E c \in Clients : ProgressReturn(c)
    \/ \E c \in Clients, job_id \in RequestIds : get_results(c, job_id)
    \/ \E c \in Clients, job_id \in RequestIds : download_csv(c, job_id)

Spec == Init /\ [][Next]_vars

(***************************************************************************)
(* The scanner on its own: one single-page document, the page and the      *)
(* search form drawn from the sets below, scanned once.                    *)
(***************************************************************************)
ProbePages ==
    {Page(TRUE, tokens, ap, ml, maxh, <<"IMP-A", "IMP-B">>, None) :
        tokens \in {{"alif"}, {"alif-x"}, {"llif"}, {}},
        ap \in {<<10, 12, 14>>, <<11, 11, 11>>, <<>>},
        ml \in {<<20, 22, 24>>, <<>>},
        maxh \in {<<5, 6, 7>>, <<>>}}

ProbeForms ==
    [base_dir : {DEFAULT_BASE_DIR}, part_type : {"ALIF", "LLIF"},
     ap_b : {"", "11.0", "14", "abc"}, ap_op : {">=", "<=", "=="},
     ml_a : {"", "22"}, ml_op : {">=", "<="},
     max_c : {"", "6"}, max_op : {">=", "<="}]

ProbePdf(page) == [Pdf("good") EXCEPT !.pages = <<page>>]

ScanInit ==
    /\ fs = [dirs |-> {}, pdfs |-> <<>>]
    /\ fitz = TRUE
    /\ JOBS = <<>>
    /\ lock = NoHolder
    /\ worker = <<>>
    /\ client = [c \in Clients |-> [pc |-> "idle", job_id |-> 0, total |-> 0]]
    /\ resp = [c \in Clients |-> NoResponse]
    /\ \E page \in ProbePages, form \in ProbeForms :
         probe = [page |-> page, part_type |-> form.part_type, form |-> form,
                  scanned |-> FALSE, rows |-> <<>>]

ScanProbe ==
    /\ ~probe.scanned
    /\ LET out == scan_pdf(ProbePdf(probe.page), probe.part_type,
                           Thresholds(probe.form), fitz)
       IN probe' = [probe EXCEPT !.scanned = TRUE, !.rows = out.rows]
    /\ UNCHANGED <<fs, fitz, JOBS, lock, worker, client, resp>>

ScanNext == ScanProbe

ScanSpec == ScanInit /\ [][ScanNext]_vars

(***************************************************************************)
(* C8.  For every page on which the scanner finds all three measurement    *)
(* triplets (a page with text that names the part type; any other page is  *)
(* skipped before the triplets are looked for) and for every plan index i, *)
(* the row of index i is emitted exactly when the AP, ML and height values *)
(* of index i all pass their comparison: value >= threshold for ">=",      *)
(* value <= threshold for "<=", and always when the threshold is unset.    *)
(* With AP 10/12/14, ML 20/22/24, MaxH 5/6/7 and only ap >= 11 set the     *)
(* rows are exactly "Plan 02" and "Plus 03"; with no threshold set all     *)
(* three rows are emitted.                                                 *)
(***************************************************************************)
TripletsFound(page, part_type) ==
    /\ page.hasText
    /\ PartTypeInText(part_type, page)
    /\ page.ap # <<>> /\ page.ml # <<>> /\ page.maxh # <<>>

Passes(value, threshold, op) ==
    \/ threshold = None
    \/ op = ">=" /\ value >= threshold[1]
    \/ op = "<=" /\ value <= threshold[1]

RowEmitted(rows, idx, page) ==
    \E k \in 1..Len(rows) :
        /\ rows[k].Plan = PLAN_LABELS[idx]
        /\ rows[k].AP_Depth_B_mm = page.ap[idx + 1]
        /\ rows[k].ML_Width_A_mm = page.ml[idx + 1]
        /\ rows[k].Max_Cage_Height_C_mm = page.maxh[idx + 1]

Plans(rows) == [k \in 1..Len(rows) |-> rows[k].Plan]

C8_AdmitIsConjunction ==
    (probe.scanned /\ TripletsFound(probe.page, probe.part_type)) =>
        LET t == Thresholds(probe.form)
            page == probe.page
        IN /\ \A idx \in 0..2 :
                RowEmitted(probe.rows, idx, page) <=>
                    /\ Passes(page.ap[idx + 1], t.ap_depth_b_mm, t.ap_op)
                    /\ Passes(page.ml[idx + 1], t.ml_width_a_mm, t.ml_op)
                    /\ Passes(page.maxh[idx + 1], t.max_cage_height_c_mm, t.max_op)
           /\ Len(probe.rows) <= 3
           /\ (/\ page.ap = <<10, 12, 14>>
               /\ t.ap_depth_b_mm = Some(11) /\ t.ap_op = ">="
               /\ t.ml_width_a_mm = None /\ t.max_cage_height_c_mm = None)
              => Plans(probe.rows) = <<"Plan 02", "Plus 03">>
           /\ (/\ t.ap_depth_b_mm = None /\ t.ml_width_a_mm = None
               /\ t.max_cage_height_c_mm = None)
              => Plans(probe.rows) = <<"Minus 01", "Plan 02", "Plus 03">>

C8_Witness ==
    /\ probe.scanned
    /\ TripletsFound(probe.page, probe.part_type)
    /\ probe.page.ap = <<10, 12, 14>>
    /\ probe.form.ap_b = "11.0" /\ probe.form.ap_op = ">="
    /\ probe.form.ml_a = "" /\ probe.form.max_c = ""
    /\ Plans(probe.rows) = <<"Plan 02", "Plus 03">>

(***************************************************************************)
(* Fair scheduling: a worker thread that can take the lock again and again *)
(* eventually takes it, and a handler that holds the lock finishes.        *)
(***************************************************************************)
LiveSpec ==
    /\ Spec
    /\ \A j \in JobIds : SF_vars(_run_job(j))
    /\ \A c \in Clients : WF_vars(ProgressReturn(c))

Created == DOMAIN JOBS

(* The rows of the files of a listing, in listing order, for files none of *)
(* which raises.                                                           *)
RECURSIVE RowsOfListing(_, _, _, _)
RowsOfListing(pdfs, part_type, thresholds, fitzLoaded) ==
    IF pdfs = <<>> THEN <<>>
    ELSE scan_pdf(Pdf(Head(pdfs)), part_type, thresholds, fitzLoaded).rows
         \o RowsOfListing(Tail(pdfs), part_type, thresholds, fitzLoaded)

Enumerated(j) == _gather_pdfs(worker[j].base_dir, fs)

(* The files of a listing whose scan raises, by position. *)
Raising(j) ==
    {i \in 1..Len(Enumerated(j)) :
        scan_pdf(Pdf(Enumerated(j)[i]), worker[j].part_type,
                 worker[j].thresholds, fitz).raised}

(***************************************************************************)
(* C1.  In every reachable state and for every job of the registry,        *)
(* processed <= total.                                                     *)
(***************************************************************************)
C1_ProcessedAtMostTotal ==
    \A j \in Created : JOBS[j].processed <= JOBS[j].total

C1_Witness ==
    \E j, k \in Created :
        /\ j # k
        /\ JOBS[j].total = 2 /\ JOBS[j].processed = 1 /\ ~JOBS[j].done
        /\ JOBS[k].total = 2 /\ JOBS[k].processed = 2 /\ JOBS[k].done

(***************************************************************************)
(* C2.  Once a job's done flag is set, no step changes the job's           *)
(* processed count, results, export payload, total or error, and done      *)
(* stays true.                                                             *)
(***************************************************************************)
C2_DoneIsTerminal ==
    [][\A j \in Created :
          JOBS[j].done =>
              /\ j \in DOMAIN JOBS'
              /\ JOBS'[j].done
              /\ JOBS'[j].processed = JOBS[j].processed
              /\ JOBS'[j].total = JOBS[j].total
              /\ JOBS'[j].results = JOBS[j].results
              /\ JOBS'[j].csv = JOBS[j].csv
              /\ JOBS'[j].error = JOBS[j].error]_vars

C2_Witness ==
    \E j, k \in Created :
        /\ JOBS[j].done /\ JOBS[j].error # None
        /\ ~JOBS[k].done /\ JOBS[k].processed = 1
        /\ \E c \in Clients :
             resp[c].endpoint = "progress" /\ resp[c].job_id = j /\ resp[c].done

(***************************************************************************)
(* C3.  The (total, processed, done) triple a /progress response carries   *)
(* is the triple the job holds at the instant the handler returns, and a   *)
(* poll of a job never reports a smaller processed value than the poll of  *)
(* the same job before it.                                                 *)
(***************************************************************************)
C3_ConsistentMonotonicPolls ==
    [][\A c \in Clients :
          (client[c].pc = "progress" /\ client'[c].pc = "idle") =>
              LET r == resp'[c]
                  j == r.job_id
              IN /\ r.endpoint = "progress" /\ r.status = 200
                 /\ j = client[c].job_id
                 /\ r.total = JOBS[j].total
                 /\ r.processed = JOBS[j].processed
                 /\ r.done = JOBS[j].done
                 /\ (/\ resp[c].endpoint = "progress"
                     /\ resp[c].status = 200
                     /\ resp[c].job_id = j) => r.processed >= resp[c].processed]_vars

C3_Witness ==
    \E c \in Clients :
        /\ resp[c].endpoint = "progress" /\ resp[c].status = 200
        /\ resp[c].total = 2 /\ resp[c].processed = 1 /\ ~resp[c].done
        /\ JOBS[resp[c].job_id].processed = 2

(***************************************************************************)
(* C4.  After the worker has taken the error path, the job has done = true *)
(* and a non-empty error message, and /progress reports that message.      *)
(***************************************************************************)
C4_ErrorNonEmpty ==
    /\ \A j \in Created :
          worker[j].pc = "failed" =>
              /\ JOBS[j].done
              /\ JOBS[j].error # None
              /\ JOBS[j].error[1] # ""
    /\ \A c \in Clients :
          (/\ resp[c].endpoint = "progress" /\ resp[c].status = 200
           /\ worker[resp[c].job_id].pc = "failed"
           /\ resp[c].done) =>
              /\ resp[c].error = JOBS[resp[c].job_id].error
              /\ resp[c].error # None
              /\ resp[c].error[1] # ""

(***************************************************************************)
(* C5.  A job whose listing holds a file that cannot be opened, or a file  *)
(* with a page that cannot be read, still ends with done = true, error =   *)
(* null and processed = total, the failing file contributing no rows.      *)
(***************************************************************************)
FileFails(pdf) ==
    \/ ~pdf.openable
    \/ \E i \in 1..Len(pdf.pages) : ~pdf.pages[i].readable

HealthyOnly(pdfs) == SelectSeq(pdfs, LAMBDA f : ~FileFails(Pdf(f)))

C5_BadFileNeverAborts ==
    \A j \in Created :
        (/\ worker[j].pc \in {"finished", "failed"}
         /\ fitz
         /\ \E i \in 1..Len(worker[j].pdfs) : FileFails(Pdf(worker[j].pdfs[i]))) =>
            /\ JOBS[j].done
            /\ JOBS[j].error = None
            /\ JOBS[j].processed = JOBS[j].total
            /\ JOBS[j].results =
                 RowsOfListing(HealthyOnly(worker[j].pdfs), worker[j].part_type,
                               worker[j].thresholds, fitz)

(***************************************************************************)
(* C6.  When the scan of the file after the first k files raises, the job  *)
(* ends with done = true and the exception's message as its error, its     *)
(* results and its export payload are empty, total is the number of        *)
(* enumerated files and processed is k.                                    *)
(***************************************************************************)
C6_FailureDiscardsResults ==
    \A j \in Created :
        worker[j].pc = "failed" =>
            /\ Raising(j) # {}
            /\ LET first == CHOOSE i \in Raising(j) : \A m \in Raising(j) : i <= m
               IN /\ JOBS[j].processed = first - 1
                  /\ JOBS[j].total = Len(Enumerated(j))
            /\ JOBS[j].done
            /\ JOBS[j].error # None
            /\ JOBS[j].error[1] \in ExcStrs
            /\ JOBS[j].results = <<>>
            /\ JOBS[j].csv = <<>>

C6_Witness ==
    \E j \in Created :
        /\ worker[j].pc = "failed"
        /\ JOBS[j].done
        /\ JOBS[j].processed = 1 /\ JOBS[j].total = 2
        /\ worker[j].results # <<>>
        /\ JOBS[j].results = <<>>

(***************************************************************************)
(* C7.  Under fair scheduling every job /start has created eventually has  *)
(* done = true.                                                            *)
(***************************************************************************)
C7_EveryJobFinishes ==
    \A j \in JobIds : (j \in Created) ~> (j \in Created /\ JOBS[j].done)

C7_Witness ==
    /\ Created = JobIds
    /\ \A j \in Created : JOBS[j].done
    /\ \E j \in Created : JOBS[j].error = Some("")
    /\ \E j \in Created : JOBS[j].error = Some("cannot read page") /\ JOBS[j].processed = 1

(***************************************************************************)
(* C9.  A request to /progress, /results or /download with an id that is   *)
(* not in the registry is answered 404 and leaves the registry as it was.  *)
(***************************************************************************)
C9_UnknownJobIs404 ==
    [][\A c \in Clients :
          (resp'[c] # resp[c] /\ resp'[c].job_id \notin Created) =>
              /\ resp'[c].status = 404
              /\ resp'[c].endpoint \in {"progress", "results", "download"}
              /\ JOBS' = JOBS
              /\ lock' = lock]_vars

C9_Witness ==
    \E c \in Clients :
        /\ resp[c].status = 404
        /\ resp[c].endpoint = "download"
        /\ resp[c].job_id \notin Created
        /\ Created # {}

(***************************************************************************)
(* C10.  While done = false a job's results and export payload are empty;  *)
(* when done = true with error = null, processed = total, results is the   *)
(* concatenation in enumeration order of the rows of every enumerated      *)
(* file, and the export payload is the export of that list.  A /results    *)
(* or /download response is therefore empty or complete, never partial.    *)
(***************************************************************************)
ExpectedRows(j) ==
    RowsOfListing(Enumerated(j), worker[j].part_type, worker[j].thresholds, fitz)

C10_ResultsPublishedWithDone ==
    /\ \A j \in Created :
          /\ ~JOBS[j].done => (JOBS[j].results = <<>> /\ JOBS[j].csv = <<>>)
          /\ (JOBS[j].done /\ JOBS[j].error = None) =>
                LET rows == ExpectedRows(j)
                IN /\ JOBS[j].processed = JOBS[j].total
                   /\ JOBS[j].total = Len(Enumerated(j))
                   /\ JOBS[j].results = rows
                   /\ JOBS[j].csv = <<fieldnames>> \o
                        [i \in 1..Len(rows) |-> CsvLine(rows[i])]
    /\ \A c \in Clients :
          /\ (resp[c].endpoint = "results" /\ resp[c].status = 200) =>
                \/ resp[c].results = <<>>
                \/ /\ JOBS[resp[c].job_id].done
                   /\ resp[c].results = ExpectedRows(resp[c].job_id)
          /\ (resp[c].endpoint = "download" /\ resp[c].status = 200) =>
                \/ resp[c].text = <<>>
                \/ /\ JOBS[resp[c].job_id].done
                   /\ resp[c].text = results_to_csv(ExpectedRows(resp[c].job_id))

C10_Witness ==
    \E c \in Clients :
        /\ resp[c].endpoint = "results" /\ resp[c].status = 200
        /\ Len(resp[c].results) = 5
        /\ resp[c].results[1].PDF = Pdf("good").path
        /\ resp[c].results[5].PDF = Pdf("good2").path
        /\ JOBS[resp[c].job_id].done /\ JOBS[resp[c].job_id].error = None

====
